---- MODULE Spec2Model ----
(***************************************************************************)
(* A model of the genetic-algorithm engine of function.py: the population  *)
(* tables, the fitness evaluator (compare_aa, term_count, energy),         *)
(* selection, crossover, mutation and the generational loop.               *)
(*                                                                         *)
(* Conventions.  Row and column positions that the code handles as data    *)
(* (elite indices, cut points, mutated positions, offsets in sameAA) keep  *)
(* Python's 0-based values; a sequence is read at position p + 1.  Every   *)
(* random draw of the code is an argument of the operator that models the  *)
(* function and is chosen with \E by the action that applies it.           *)
(***************************************************************************)
EXTENDS Integers, Sequences, FiniteSets, TLC

VARIABLES
    pc,               \* where the program stands
    cfg,              \* read-only inputs: keys, frags_count, frag, G, score
    args,             \* popSize, eliteSize, num_points, mutationRate, generations
    pop,              \* genetic_algorithm's pop = next_generation's population
    matingpool,       \* next_generation's matingpool
    children,         \* next_generation's children
    nextGeneration,   \* next_generation's nextGeneration
    idx,              \* crossover_population's loop index i
    draw,             \* crossover's sampled points and providers (function-level runs)
    mutationPosition, \* the positions in mutate's mutationPosition of the last call
    gen,              \* genetic_algorithm's loop counter i
    err,              \* the exception raised, "" when none
    firstBest,        \* history: best energy of the initial population
    individual,       \* energy's / crossover's arguments (function-level runs)
    fitness,          \* energy's result (function-level runs)
    child             \* crossover's result (function-level runs)

vars == <<pc, cfg, args, pop, matingpool, children, nextGeneration, idx, draw,
          mutationPosition, gen, err, firstBest, individual, fitness, child>>

(***************************************************************************)
(* Bounds of the model.                                                    *)
(***************************************************************************)
\* random() is drawn from the grid 0/RandGrid .. (RandGrid-1)/RandGrid of [0, 1)
RandGrid == 8
\* rows of the populations handed to selection on its own
MaxPop == 3
\* length of the parents handed to crossover on its own
MaxLen == 3
\* generations of the small genetic_algorithm runs
MaxGen == 2

(***************************************************************************)
(* Values.                                                                 *)
(***************************************************************************)
\* a numpy table of shape (Len(rows), ncols)
ndarray(rows, ncols) == [kind |-> "ndarray", ncols |-> ncols, rows |-> rows]

\* Python's None (what a function returns when it falls off its end)
None == [kind |-> "None", ncols |-> 0, rows |-> <<>>]

\* np.zeros(shape = (n, ncols), dtype = int)
zeros(n, ncols) == ndarray([r \in 1..n |-> [c \in 1..ncols |-> 0]], ncols)

\* len(table)
len(a) == Len(a.rows)

\* a mutation rate num/den (a non-negative rational)
Rate(num, den) == [num |-> num, den |-> den]

\* sorted list of a set of integers (list.sort())
RECURSIVE SortedList(_)
SortedList(S) ==
    IF S = {} THEN <<>>
    ELSE LET m == CHOOSE x \in S : \A y \in S : x <= y
         IN  <<m>> \o SortedList(S \ {m})

\* random.sample(range(n), k): the possible results, as sets; none when k > n
\* (the code raises ValueError there)
sample(n, k) == {S \in SUBSET (0..(n - 1)) : Cardinality(S) = k}

\* the lists random.sample can return for the set S of sampled elements:
\* the elements of S in every order
sample_lists(S) ==
    {s \in [1..Cardinality(S) -> S] :
        \A p, q \in 1..Cardinality(S) : p # q => s[p] # s[q]}

(***************************************************************************)
(* Fitness evaluator.                                                      *)
(***************************************************************************)
\* frag.select(key, index): the residues of fragment `index` of `key`
select(frag, key, index) == frag[key][index + 1]

\* dict(zip(keys, individual))
sel_frag(keys, ind) ==
    [k \in {keys[j] : j \in 1..Len(keys)} |->
        ind[CHOOSE j \in 1..Len(keys) : keys[j] = k]]

\* the loop over G.edges[edge]['sameAA'], from offset pair p on
RECURSIVE SameAALoop(_, _, _, _, _)
SameAALoop(sameAA, p, u_seq, v_seq, score) ==
    IF p > Len(sameAA) THEN 0
    ELSE LET u_aa == u_seq[sameAA[p][1] + 1]
             v_aa == v_seq[sameAA[p][2] + 1]
         IN  score[<<u_aa, v_aa>>] + SameAALoop(sameAA, p + 1, u_seq, v_seq, score)

\* the loop over G.edges, from edge e on
RECURSIVE EdgeLoop(_, _, _, _, _, _)
EdgeLoop(G, e, sf, frag, frags_count, score) ==
    IF e > Len(G) THEN 0
    ELSE LET u == G[e].u
             v == G[e].v
             here == IF sf[u] < frags_count[u] /\ sf[v] < frags_count[v]
                     THEN SameAALoop(G[e].sameAA, 1, select(frag, u, sf[u]),
                                     select(frag, v, sf[v]), score)
                     ELSE 0
         IN  here + EdgeLoop(G, e + 1, sf, frag, frags_count, score)

compare_aa(ind, keys, frag, frags_count, G, score) ==
    EdgeLoop(G, 1, sel_frag(keys, ind), frag, frags_count, score)

term_count(ind, keys, frags_count) ==
    LET sf == sel_frag(keys, ind)
    IN  Cardinality({j \in 1..Len(keys) : sf[keys[j]] < frags_count[keys[j]]})

\* a slip: the penalty is added instead of subtracted
energy_plus(ind, c) ==
    compare_aa(ind, c.keys, c.frag, c.frags_count, c.G, c.score)
        + term_count(ind, c.keys, c.frags_count)

energy(ind, c) ==
    compare_aa(ind, c.keys, c.frag, c.frags_count, c.G, c.score)
        - term_count(ind, c.keys, c.frags_count)

(***************************************************************************)
(* Selection.                                                              *)
(***************************************************************************)
\* fitnessResults.items(): <<row index, energy>> in insertion order
fitnessItems(population, c) ==
    [r \in 1..len(population) |-> <<r - 1, energy(population.rows[r], c)>>]

\* stable insertion of item x into a list sorted by descending value
RECURSIVE InsertDescending(_, _)
InsertDescending(s, x) ==
    IF s = <<>> THEN <<x>>
    ELSE IF Head(s)[2] >= x[2] THEN <<Head(s)>> \o InsertDescending(Tail(s), x)
    ELSE <<x>> \o s

\* stable insertion of item x into a list sorted by ascending value
RECURSIVE InsertAscending(_, _)
InsertAscending(s, x) ==
    IF s = <<>> THEN <<x>>
    ELSE IF Head(s)[2] <= x[2] THEN <<Head(s)>> \o InsertAscending(Tail(s), x)
    ELSE <<x>> \o s

RECURSIVE SortAscending(_, _)
SortAscending(items, n) ==
    IF n = 0 THEN <<>> ELSE InsertAscending(SortAscending(items, n - 1), items[n])

RECURSIVE SortDescending(_, _)
SortDescending(items, n) ==
    IF n = 0 THEN <<>> ELSE InsertDescending(SortDescending(items, n - 1), items[n])

\* a slip: sorted(...)[::-1] instead of reverse = True (ties come out reversed)
sortedResults_reversed(population, c) ==
    LET asc == SortAscending(fitnessItems(population, c), len(population))
    IN  [p \in 1..Len(asc) |-> asc[Len(asc) + 1 - p]]

\* a slip: reverse = True is left out
sortedResults_ascending(population, c) ==
    SortAscending(fitnessItems(population, c), len(population))

\* sorted(fitnessResults.items(), key = itemgetter(1), reverse = True)
sortedResults(population, c) ==
    SortDescending(fitnessItems(population, c), len(population))

\* [i[0] for i in sortedResults[:eliteSize]]
elitesOf(population, eliteSize, c) ==
    LET sr == sortedResults(population, c)
        n  == IF eliteSize < Len(sr) THEN eliteSize ELSE Len(sr)
    IN  [p \in 1..n |-> sr[p][1]]

\* np.random.choice(range(n), size): the possible results; none when n = 0 and
\* size > 0 (the code raises ValueError there)
np_random_choice(n, size) == [1..size -> 0..(n - 1)]

\* np.append(population[elites, :], population[non_elites, :], axis = 0)
matingpoolOf(population, elites, non_elites) ==
    ndarray([r \in 1..(Len(elites) + Len(non_elites)) |->
                IF r <= Len(elites) THEN population.rows[elites[r] + 1]
                ELSE population.rows[non_elites[r - Len(elites)] + 1]],
            population.ncols)

\* selection's result for the draws non_elites
selection(population, eliteSize, c, non_elites) ==
    matingpoolOf(population, elitesOf(population, eliteSize, c), non_elites)

(***************************************************************************)
(* Initial population.                                                     *)
(***************************************************************************)
\* Python 3's round(num / den) for num >= 0: to the nearest, halves to even
round(num, den) ==
    LET fl == num \div den
        rm == num % den
    IN  IF 2 * rm < den THEN fl
        ELSE IF 2 * rm > den THEN fl + 1
        ELSE IF fl % 2 = 0 THEN fl ELSE fl + 1

\* a slip: the draw is scaled by N_key + 1
create_individual_wide(keys, frags_count, u) ==
    [j \in 1..Len(keys) |-> round(u[j] * (frags_count[keys[j]] + 1), RandGrid)]

\* create_individual, u[j] / RandGrid being the j-th value of random()
create_individual(keys, frags_count, u) ==
    [j \in 1..Len(keys) |-> round(u[j] * frags_count[keys[j]], RandGrid)]

\* the rows create_individual can produce
InitialRows(c) ==
    {create_individual(c.keys, c.frags_count, u) :
        u \in [1..Len(c.keys) -> 0..(RandGrid - 1)]}

\* initial_population: the tables it can produce
initial_population(popSize, c) ==
    {ndarray(rows, Len(c.keys)) : rows \in [1..popSize -> InitialRows(c)]}

(***************************************************************************)
(* Crossover.                                                              *)
(***************************************************************************)
\* the loop over the segments, from segment i on
RECURSIVE CrossLoop(_, _, _, _, _)
CrossLoop(points, i, parent1, parent2, providers) ==
    IF i > Len(points) - 1 THEN <<>>
    ELSE LET provider == IF providers[i] = 1 THEN parent1 ELSE parent2
         IN  SubSeq(provider, points[i] + 1, points[i + 1])
                 \o CrossLoop(points, i + 1, parent1, parent2, providers)

\* the cut points: sorted(set(points) | {0, len(parent1)})
cutPoints(points_sample, L) == SortedList(points_sample \cup {0, L})

\* the possible choices of provider, one per segment
providerChoices(points_sample, L) ==
    [1..(Len(cutPoints(points_sample, L)) - 1) -> {1, 2}]

\* a slip: the boundary 0 is not forced into the cut points
crossover_no_zero(parent1, parent2, points_sample, providers) ==
    CrossLoop(SortedList(points_sample \cup {Len(parent1)}), 1,
              parent1, parent2, providers)

\* crossover's result for the sampled points and the providers chosen
crossover(parent1, parent2, points_sample, providers) ==
    CrossLoop(cutPoints(points_sample, Len(parent1)), 1,
              parent1, parent2, providers)

\* random.sample(list(matingpool), 2): two different rows, in either order
parentPairs(n) == {t \in (0..(n - 1)) \X (0..(n - 1)) : t[1] # t[2]}

\* crossover not called yet: no points sampled, no providers chosen
NoDraw == [points |-> {}, providers |-> <<>>]

(***************************************************************************)
(* Mutation.                                                               *)
(***************************************************************************)
\* int(mutationRate * len(individual))
mutationNumber(mutationRate, L) == (mutationRate.num * L) \div mutationRate.den

\* the largest fragment count
maxCount(frags_count, keys) ==
    LET ns == {frags_count[keys[j]] : j \in 1..Len(keys)}
    IN  CHOOSE m \in ns : \A n \in ns : n <= m

\* a slip: the new allele is drawn from range(N_key + 1)
mutationValues_wide(positions, frags_count, keys) ==
    {f \in [positions -> (-1)..maxCount(frags_count, keys)] :
        \A i \in positions : f[i] \in 0..frags_count[keys[i + 1]]}

\* choice(range(frags_count[keys[i]])) for each sampled position i; -1 stands
\* for no value, where the range is empty and choice raises IndexError
mutationValues(positions, frags_count, keys) ==
    {f \in [positions -> (-1)..maxCount(frags_count, keys)] :
        \A i \in positions :
           f[i] \in IF frags_count[keys[i + 1]] = 0 THEN {-1}
                    ELSE 0..(frags_count[keys[i + 1]] - 1)}

\* mutationPosition = sample(range(len(individual)), mutationNumber) for the
\* sampled set S.  The order of the list tells which positions are written
\* before choice raises; when no sampled key has an empty range every order
\* gives the same individual, and one order stands for all
mutationPositions(S, frags_count, keys) ==
    IF \E i \in S : frags_count[keys[i + 1]] = 0
    THEN sample_lists(S) ELSE {SortedList(S)}

\* mutate's loop over mutationPosition, from its p-th element on: the
\* individual is written in place, position by position, until choice raises
RECURSIVE MutateLoop(_, _, _, _, _, _)
MutateLoop(ind, mutationPosition_, p, values, frags_count, keys) ==
    IF p > Len(mutationPosition_) THEN [individual |-> ind, raised |-> ""]
    ELSE LET i == mutationPosition_[p]
         IN  IF frags_count[keys[i + 1]] = 0
             THEN [individual |-> ind, raised |-> "IndexError"]
             ELSE MutateLoop([ind EXCEPT ![i + 1] = values[i]],
                             mutationPosition_, p + 1, values, frags_count, keys)

\* mutate, for the list of positions sampled and the values drawn: the
\* individual as mutate leaves it, and the exception raised ("" when none)
mutate(ind, mutationPosition_, values, frags_count, keys) ==
    MutateLoop(ind, mutationPosition_, 1, values, frags_count, keys)

\* a slip: mutatedPop = population (no copy)
ndarray_alias(a) == [arr |-> a, shares |-> TRUE]

\* population.copy(): a new table that shares nothing with the old one
ndarray_copy(a) == [arr |-> a, shares |-> FALSE]

\* mutate_population: what it returns (ret), what the table passed in holds
\* afterwards (arg) and the exception raised ("" when none).  The return
\* statement stands inside the loop: the function returns after row 0, or
\* None when there is no row.  When mutate raises, the rows it has already
\* written stay written in mutatedPop.
mutate_population(population, mutationPosition_, values, frags_count, keys) ==
    LET mutatedPop == ndarray_copy(population)
    IN  IF len(population) = 0
        THEN [ret |-> None, arg |-> population, raised |-> ""]
        ELSE LET m     == mutate(mutatedPop.arr.rows[1], mutationPosition_,
                                 values, frags_count, keys)
                 after == [mutatedPop.arr EXCEPT !.rows[1] = m.individual]
             IN  [ret    |-> IF m.raised = "" THEN after ELSE None,
                  arg    |-> IF mutatedPop.shares THEN after ELSE population,
                  raised |-> m.raised]

(***************************************************************************)
(* Inputs.                                                                 *)
(***************************************************************************)
Residues == {"K", "L", "V"}

\* the substitution scores of K, L, V (an excerpt of blosum62)
blosum62 ==
    [p \in Residues \X Residues |->
        IF p[1] = p[2] THEN (IF p[1] = "K" THEN 5 ELSE 4)
        ELSE IF "K" \in {p[1], p[2]} THEN -2 ELSE 1]

\* a scorer that gives v for every pair
constScore(v) == [p \in Residues \X Residues |-> v]

Edge(u, v, sameAA) == [u |-> u, v |-> v, sameAA |-> sameAA]

\* two keys, one or two fragments each, one edge with one offset pair
CfgSmall ==
    [keys        |-> <<"A", "B">>,
     frags_count |-> ("A" :> 1 @@ "B" :> 2),
     frag        |-> ("A" :> << <<"L", "V">> >>
                      @@ "B" :> << <<"L", "K">>, <<"V", "K">> >>),
     G           |-> << Edge("A", "B", << <<0, 0>> >>) >>,
     score       |-> blosum62]

\* two keys, B without any fragment (N_B = 0: B's only allele is the null one)
CfgZero ==
    [keys        |-> <<"A", "B">>,
     frags_count |-> ("A" :> 2 @@ "B" :> 0),
     frag        |-> ("A" :> << <<"L", "V">>, <<"K", "L">> >> @@ "B" :> <<>>),
     G           |-> << Edge("A", "B", << <<0, 0>> >>) >>,
     score       |-> blosum62]

\* three keys with two fragments each, the single edge A-B, scorer 5
CfgE2E ==
    [keys        |-> <<"A", "B", "C">>,
     frags_count |-> ("A" :> 2 @@ "B" :> 2 @@ "C" :> 2),
     frag        |-> ("A" :> << <<"L", "V">>, <<"K", "L">> >>
                      @@ "B" :> << <<"V", "L">>, <<"K", "K">> >>
                      @@ "C" :> << <<"L", "L">>, <<"V", "K">> >>),
     G           |-> << Edge("A", "B", << <<0, 1>> >>) >>,
     score       |-> constScore(5)]

\* the topology graphs of the fitness runs
EnergyGraphs ==
    { <<>>,
      << Edge("A", "B", << <<0, 0>> >>) >>,
      << Edge("A", "B", << <<0, 1>>, <<1, 0>> >>), Edge("B", "C", << <<1, 1>> >>) >>,
      << Edge("B", "C", << <<1, 1>> >>), Edge("A", "B", << <<0, 1>>, <<1, 0>> >>) >>,
      << Edge("A", "B", <<>>), Edge("A", "C", << <<0, 0>>, <<1, 1>> >>) >> }

\* the inputs of the fitness runs: three keys, with 2, 1 and 2 fragments
EnergyCfgs ==
    {[keys        |-> <<"A", "B", "C">>,
      frags_count |-> ("A" :> 2 @@ "B" :> 1 @@ "C" :> 2),
      frag        |-> ("A" :> << <<"L", "V">>, <<"K", "L">> >>
                       @@ "B" :> << <<"V", "L">> >>
                       @@ "C" :> << <<"L", "K">>, <<"V", "V">> >>),
      G           |-> g,
      score       |-> s] :
        g \in EnergyGraphs, s \in {blosum62, constScore(0), constScore(5)}}

\* every individual over the keys of c: allele j in 0..N_key(j)
Individuals(c) ==
    {ind \in [1..Len(c.keys) -> 0..maxCount(c.frags_count, c.keys)] :
        \A j \in 1..Len(c.keys) : ind[j] <= c.frags_count[c.keys[j]]}

\* mutation rates 0, 1/2, 1 and, out of range, 3/2
Rates == {Rate(0, 2), Rate(1, 2), Rate(2, 2), Rate(3, 2)}

NoArgs == [popSize |-> 0, eliteSize |-> 0, num_points |-> 0,
           mutationRate |-> Rate(0, 2), generations |-> 0]

(***************************************************************************)
(* The program: genetic_algorithm and next_generation, step by step.       *)
(***************************************************************************)
\* the best energy of a table with at least one row
bestEnergy(a, c) ==
    LET es == {energy(a.rows[r], c) : r \in 1..len(a)}
    IN  CHOOSE m \in es : \A e \in es : e <= m

Raise(name) ==
    /\ pc' = "error"
    /\ err' = name

\* pop = initial_population(popSize, keys, frags_count)
InitialPopulation ==
    /\ pc = "start"
    /\ \E p \in initial_population(args.popSize, cfg) :
          /\ pop' = p
          /\ firstBest' = IF len(p) = 0 THEN 0 ELSE bestEnergy(p, cfg)
    /\ pc' = "loop"
    /\ UNCHANGED <<cfg, args, matingpool, children, nextGeneration, idx, draw,
                   mutationPosition, gen, err, individual, fitness, child>>

\* for i in range(generations): ... return pop
GenerationLoop ==
    /\ pc = "loop"
    /\ pc' = IF gen < args.generations THEN "selection" ELSE "done"
    /\ UNCHANGED <<cfg, args, pop, matingpool, children, nextGeneration, idx, draw,
                   mutationPosition, gen, err, firstBest, individual, fitness, child>>

\* matingpool = selection(population, eliteSize, ...)
SelectionStep ==
    /\ pc = "selection"
    /\ IF pop.kind = "None"
       THEN Raise("TypeError") /\ UNCHANGED matingpool
       ELSE IF len(pop) = 0 /\ args.eliteSize > 0
       THEN Raise("ValueError") /\ UNCHANGED matingpool
       ELSE LET elites == elitesOf(pop, args.eliteSize, cfg)
            IN  \E non_elites \in np_random_choice(len(pop), args.eliteSize) :
                  /\ matingpool' = matingpoolOf(pop, elites, non_elites)
                  /\ pc' = "crossover_population"
                  /\ UNCHANGED err
    /\ UNCHANGED <<cfg, args, pop, children, nextGeneration, idx, draw,
                   mutationPosition, gen, firstBest, individual, fitness, child>>

\* children = np.zeros(shape = matingpool.shape)
CrossoverPopulationBegin ==
    /\ pc = "crossover_population"
    /\ children' = zeros(len(matingpool), matingpool.ncols)
    /\ idx' = 0
    /\ pc' = "crossover_loop"
    /\ UNCHANGED <<cfg, args, pop, matingpool, nextGeneration, draw,
                   mutationPosition, gen, err, firstBest, individual, fitness, child>>

\* one iteration of crossover_population's loop, or its return
CrossoverPopulationLoop ==
    /\ pc = "crossover_loop"
    /\ IF idx >= len(children)
       THEN /\ pc' = "mutate_population"
            /\ UNCHANGED <<children, idx, draw, err>>
       ELSE IF len(matingpool) < 2 \/ args.num_points > matingpool.ncols
       THEN Raise("ValueError") /\ UNCHANGED <<children, idx, draw>>
       ELSE \E parents \in parentPairs(len(matingpool)) :
            \E S \in sample(matingpool.ncols, args.num_points) :
            \E pr \in providerChoices(S, matingpool.ncols) :
               /\ children' = [children EXCEPT !.rows[idx + 1] =
                                  crossover(matingpool.rows[parents[1] + 1],
                                            matingpool.rows[parents[2] + 1],
                                            S, pr)]
               /\ idx' = idx + 1
               /\ UNCHANGED <<pc, err, draw>>
    /\ UNCHANGED <<cfg, args, pop, matingpool, nextGeneration,
                   mutationPosition, gen, firstBest, individual, fitness, child>>

\* nextGeneration = mutate_population(children, mutationRate, ...)
MutatePopulationStep ==
    /\ pc = "mutate_population"
    /\ LET L == children.ncols
           m == mutationNumber(args.mutationRate, L)
       IN  IF len(children) = 0
           THEN LET r == mutate_population(children, <<>>, <<>>,
                                           cfg.frags_count, cfg.keys)
                IN  /\ nextGeneration' = r.ret
                    /\ children' = r.arg
                    /\ pc' = "return"
                    /\ UNCHANGED <<mutationPosition, err>>
           ELSE IF m > L
           THEN Raise("ValueError")
                /\ UNCHANGED <<nextGeneration, children, mutationPosition>>
           ELSE \E S \in sample(L, m) :
                \E mp \in mutationPositions(S, cfg.frags_count, cfg.keys) :
                \E values \in mutationValues(S, cfg.frags_count, cfg.keys) :
                   LET r == mutate_population(children, mp, values,
                                              cfg.frags_count, cfg.keys)
                   IN  /\ children' = r.arg
                       /\ mutationPosition' = S
                       /\ IF r.raised = ""
                          THEN /\ nextGeneration' = r.ret
                               /\ pc' = "return"
                               /\ UNCHANGED err
                          ELSE Raise(r.raised) /\ UNCHANGED nextGeneration
    /\ UNCHANGED <<cfg, args, pop, matingpool, idx, draw, gen, firstBest,
                   individual, fitness, child>>

\* return nextGeneration; pop = next_generation(...): the locals are gone
ReturnStep ==
    /\ pc = "return"
    /\ pop' = nextGeneration
    /\ gen' = gen + 1
    /\ pc' = "loop"
    /\ matingpool' = None
    /\ children' = None
    /\ nextGeneration' = None
    /\ idx' = 0
    /\ draw' = NoDraw
    /\ mutationPosition' = {}
    /\ UNCHANGED <<cfg, args, err, firstBest, individual, fitness, child>>

Idle ==
    /\ pop = None
    /\ matingpool = None
    /\ children = None
    /\ nextGeneration = None
    /\ idx = 0
    /\ draw = NoDraw
    /\ mutationPosition = {}
    /\ gen = 0
    /\ err = ""
    /\ firstBest = 0
    /\ individual = <<>>
    /\ fitness = 0
    /\ child = <<>>

\* genetic_algorithm on the small inputs, every draw free; the inputs include
\* those that make a stage fail: no row with eliteSize 1 (selection),
\* num_points above len(keys) (crossover), a rate above 1 and a key without
\* fragments (mutation)
Init ==
    /\ pc = "start"
    /\ cfg \in {CfgSmall, CfgZero}
    /\ args \in [popSize : 0..2, eliteSize : 0..1, num_points : 0..3,
                 mutationRate : Rates, generations : 0..MaxGen]
    /\ Idle

Next ==
    \/ InitialPopulation
    \/ GenerationLoop
    \/ SelectionStep
    \/ CrossoverPopulationBegin
    \/ CrossoverPopulationLoop
    \/ MutatePopulationStep
    \/ ReturnStep

Spec == Init /\ [][Next]_vars

(***************************************************************************)
(* The end-to-end scenario: three keys A, B, C with two fragments each,    *)
(* the single edge A-B, scorer 5, every draw free.  The scenario's         *)
(* popSize 20, eliteSize 5 and 10 generations are scaled down to popSize   *)
(* 2, eliteSize 1 and MaxGen generations: the 27 ^ 20 initial populations  *)
(* of the full scenario cannot be enumerated.                              *)
(***************************************************************************)
E2E == [popSize |-> 2, eliteSize |-> 1, generations |-> MaxGen]

InitE2E ==
    /\ pc = "start"
    /\ cfg = CfgE2E
    /\ args \in [popSize : {E2E.popSize}, eliteSize : {E2E.eliteSize},
                 num_points : 0..Len(CfgE2E.keys),
                 mutationRate : {r \in Rates : r.num <= r.den},
                 generations : {E2E.generations}]
    /\ Idle

SpecE2E == InitE2E /\ [][Next]_vars

(***************************************************************************)
(* selection on its own: every table of up to MaxPop rows, every eliteSize *)
(* up to MaxPop (above the number of rows for the smaller tables).         *)
(***************************************************************************)
InitSelection ==
    /\ pc = "selection"
    /\ cfg = CfgSmall
    /\ \E n \in 0..MaxPop, e \in 0..MaxPop :
          /\ args = [NoArgs EXCEPT !.popSize = n, !.eliteSize = e]
          /\ \E rows \in [1..n -> Individuals(CfgSmall)] :
                pop = ndarray(rows, Len(CfgSmall.keys))
    /\ matingpool = None
    /\ children = None
    /\ nextGeneration = None
    /\ idx = 0
    /\ draw = NoDraw
    /\ mutationPosition = {}
    /\ gen = 0
    /\ err = ""
    /\ firstBest = 0
    /\ individual = <<>>
    /\ fitness = 0
    /\ child = <<>>

NextSelection == SelectionStep

SpecSelection == InitSelection /\ [][NextSelection]_vars

(***************************************************************************)
(* crossover on its own: two parents of equal length up to MaxLen, every   *)
(* num_points up to one more than the length.                              *)
(***************************************************************************)
\* child = crossover(parent1, parent2, num_points)
CrossoverCall ==
    /\ pc = "crossover"
    /\ LET parent1 == individual[1]
           parent2 == individual[2]
       IN  IF args.num_points > Len(parent1)
           THEN Raise("ValueError") /\ UNCHANGED <<child, draw>>
           ELSE \E S \in sample(Len(parent1), args.num_points) :
                \E pr \in providerChoices(S, Len(parent1)) :
                   /\ child' = crossover(parent1, parent2, S, pr)
                   /\ draw' = [NoDraw EXCEPT !.points = S, !.providers = pr]
                   /\ pc' = "done"
                   /\ UNCHANGED err
    /\ UNCHANGED <<cfg, args, pop, matingpool, children, nextGeneration, idx,
                   mutationPosition, gen, firstBest, individual, fitness>>

InitCrossover ==
    /\ pc = "crossover"
    /\ cfg = CfgSmall
    /\ \E L \in 1..MaxLen :
          /\ individual \in [1..2 -> [1..L -> 0..2]]
          /\ \E k \in 0..(L + 1) : args = [NoArgs EXCEPT !.num_points = k]
    /\ pop = None
    /\ matingpool = None
    /\ children = None
    /\ nextGeneration = None
    /\ idx = 0
    /\ draw = NoDraw
    /\ mutationPosition = {}
    /\ gen = 0
    /\ err = ""
    /\ firstBest = 0
    /\ fitness = 0
    /\ child = <<>>

NextCrossover == CrossoverCall

SpecCrossover == InitCrossover /\ [][NextCrossover]_vars

(***************************************************************************)
(* energy on its own: every individual, five graphs, three scorers.        *)
(***************************************************************************)
\* fitness = energy(individual, keys, frag, frags_count, G)
EnergyCall ==
    /\ pc = "energy"
    /\ fitness' = energy(individual, cfg)
    /\ pc' = "done"
    /\ UNCHANGED <<cfg, args, pop, matingpool, children, nextGeneration, idx, draw,
                   mutationPosition, gen, err, firstBest, individual, child>>

InitEnergy ==
    /\ pc = "energy"
    /\ cfg \in EnergyCfgs
    /\ individual \in Individuals(cfg)
    /\ args = NoArgs
    /\ pop = None
    /\ matingpool = None
    /\ children = None
    /\ nextGeneration = None
    /\ idx = 0
    /\ draw = NoDraw
    /\ mutationPosition = {}
    /\ gen = 0
    /\ err = ""
    /\ firstBest = 0
    /\ fitness = 0
    /\ child = <<>>

NextEnergy == EnergyCall

SpecEnergy == InitEnergy /\ [][NextEnergy]_vars

(***************************************************************************)
(* Properties.                                                             *)
(***************************************************************************)
L0 == Len(cfg.keys)

\* the energy of row r (1-based) of table a
E(a, r) == energy(a.rows[r], cfg)

\* the energies of the rows of a, from row r on
RECURSIVE Energies(_, _)
Energies(a, r) ==
    IF r > len(a) THEN <<>> ELSE <<E(a, r)>> \o Energies(a, r + 1)

\* for each row of a, the number of rows that come before it when the rows
\* are ordered by descending energy, ties by ascending row index
Before(a) ==
    LET en == Energies(a, 1)
    IN  [r \in 1..len(a) |->
            Cardinality({q \in 1..len(a) :
                en[q] > en[r] \/ (en[q] = en[r] /\ q < r)})]

\* a is a table of n rows of L0 alleles, allele j in 0..N_key(j)
WellFormed(a, n) ==
    /\ a.kind = "ndarray"
    /\ a.ncols = L0
    /\ len(a) = n
    /\ \A r \in 1..len(a) :
          /\ Len(a.rows[r]) = L0
          /\ \A j \in 1..L0 : a.rows[r][j] \in 0..cfg.frags_count[cfg.keys[j]]

\* C1: for 0 <= eliteSize <= rows, selection returns 2 * eliteSize rows; the
\* first eliteSize are the rows of the population with the highest energy, in
\* descending order of energy, ties by ascending row index; each of the other
\* rows is a copy of some row of the population.
C1_MatingPool ==
    (pc # "selection" /\ args.eliteSize <= len(pop)) =>
        /\ pc = "crossover_population"
        /\ matingpool.kind = "ndarray"
        /\ matingpool.ncols = pop.ncols
        /\ len(matingpool) = 2 * args.eliteSize
        /\ LET before == Before(pop)
           IN  \A p \in 1..args.eliteSize :
                  \E r \in 1..len(pop) :
                     before[r] = p - 1 /\ matingpool.rows[p] = pop.rows[r]
        /\ \A p \in (args.eliteSize + 1)..(2 * args.eliteSize) :
              \E r \in 1..len(pop) : matingpool.rows[p] = pop.rows[r]

\* selection has chosen one elite among three different rows of equal energy
C1_Witness ==
    /\ pc = "crossover_population"
    /\ args.eliteSize = 1
    /\ len(pop) = 3
    /\ E(pop, 1) = E(pop, 2) /\ E(pop, 2) = E(pop, 3)
    /\ pop.rows[1] # pop.rows[2] /\ pop.rows[2] # pop.rows[3]
    /\ pop.rows[1] # pop.rows[3]
    /\ matingpool.rows[2] = pop.rows[3]

\* C7: selection with eliteSize greater than the number of rows fails with an
\* InvalidConfiguration error instead of returning a mating pool.
C7_EliteSizeTooLarge ==
    (pc # "selection" /\ args.eliteSize > len(pop)) =>
        /\ pc = "error"
        /\ err = "InvalidConfiguration"

\* C4: for num_points < L every result of crossover has length L and holds at
\* every position parent1's or parent2's allele of that position; with equal
\* parents the child is the parent, with num_points = 0 it is one of the two.
C4_Crossover ==
    (pc # "crossover" /\ args.num_points < Len(individual[1])) =>
        /\ pc = "done"
        /\ Len(child) = Len(individual[1])
        /\ \A j \in 1..Len(individual[1]) :
              child[j] \in {individual[1][j], individual[2][j]}
        /\ (individual[1] = individual[2] => child = individual[1])
        /\ (args.num_points = 0 => child \in {individual[1], individual[2]})

\* crossover has mixed two parents of length 3 at two cut points, none at 0
C4_Witness ==
    /\ pc = "done"
    /\ Len(individual[1]) = 3
    /\ args.num_points = 2
    /\ draw.points = {1, 2}
    /\ child # individual[1]
    /\ child # individual[2]

\* the sum of f over the finite set S
RECURSIVE SumOver(_, _)
SumOver(S, f) ==
    IF S = {} THEN 0
    ELSE LET x == CHOOSE y \in S : TRUE
         IN  f[x] + SumOver(S \ {x}, f)

\* the allele of key k in the individual
AlleleOf(k) == individual[CHOOSE j \in 1..Len(cfg.keys) : cfg.keys[j] = k]

IsActive(k) == AlleleOf(k) < cfg.frags_count[k]

ActiveCount == Cardinality({j \in 1..Len(cfg.keys) : IsActive(cfg.keys[j])})

\* the offset pairs <<edge, pair>> of the edges with two active endpoints
ScoredPairs ==
    UNION {{<<e, p>> : p \in 1..Len(cfg.G[e].sameAA)} :
           e \in {e \in 1..Len(cfg.G) :
                     IsActive(cfg.G[e].u) /\ IsActive(cfg.G[e].v)}}

PairScore ==
    [t \in ScoredPairs |->
        LET e == cfg.G[t[1]]
            o == e.sameAA[t[2]]
        IN  cfg.score[<<cfg.frag[e.u][AlleleOf(e.u) + 1][o[1] + 1],
                        cfg.frag[e.v][AlleleOf(e.v) + 1][o[2] + 1]>>]]

\* C5: energy is the sum of the scorer's values over the offset pairs of the
\* edges with two active endpoints, minus the number of active keys: 0 for a
\* fully null individual, 0 - active_count with the constant-zero scorer.
C5_Energy ==
    pc = "done" =>
        /\ fitness = SumOver(ScoredPairs, PairScore) - ActiveCount
        /\ (ActiveCount = 0 => fitness = 0)
        /\ (cfg.score = constScore(0) => fitness = 0 - ActiveCount)

\* energy has scored an individual with an active and a null edge
C5_Witness ==
    /\ pc = "done"
    /\ Len(cfg.G) = 2
    /\ cfg.score = blosum62
    /\ IsActive("A") /\ IsActive("B") /\ ~IsActive("C")
    /\ fitness = 6

\* C3: throughout a run every table has rows of len(keys) alleles, allele j
\* in 0..N_key(j); the alleles mutate has written are in 0..N_key(j) - 1.
C3_AllelesInRange ==
    /\ \A a \in {pop, matingpool, children, nextGeneration} :
          a.kind = "ndarray" => WellFormed(a, len(a))
    /\ (pc = "return" /\ nextGeneration.kind = "ndarray") =>
          \A i \in mutationPosition :
             nextGeneration.rows[1][i + 1] \in
                 0..(cfg.frags_count[cfg.keys[i + 1]] - 1)

\* the second generation has been mutated at both positions of row 0
C3_Witness ==
    /\ pc = "return"
    /\ gen = 1
    /\ mutationPosition = {0, 1}
    /\ nextGeneration.kind = "ndarray"
    /\ nextGeneration.rows[1][2] = 1
    /\ \E r \in 1..len(nextGeneration) : nextGeneration.rows[r][2] = 2

InNextGeneration ==
    pc \in {"selection", "crossover_population", "crossover_loop",
            "mutate_population"}

\* C8: no step of next_generation, failing or not, changes the population
\* passed in, and mutate_population leaves the children passed to it as
\* they were.
C8_InputUnchanged ==
    [][/\ (InNextGeneration => pop' = pop)
       /\ (pc = "mutate_population" => children' = children)]_vars

\* mutate has failed on the key without fragments after it had written a
\* new allele over the null allele of key A in row 0 of its copy:
\* population and children are tables with rows
C8_Witness ==
    /\ pc = "error"
    /\ err = "IndexError"
    /\ mutationPosition = {0, 1}
    /\ len(pop) = 2
    /\ len(children) = 2
    /\ children.rows[1][1] = cfg.frags_count["A"]

\* C9: for popSize >= 1, 0 <= eliteSize <= popSize, num_points below
\* len(keys), a rate within 0..1 and every N_key >= 1, genetic_algorithm ends
\* after exactly `generations` generations and returns a table of popSize
\* rows (generations = 0) or 2 * eliteSize rows (generations >= 1).
C9_ReturnsTable ==
    (/\ args.popSize >= 1 /\ args.eliteSize <= args.popSize
     /\ args.num_points < L0
     /\ args.mutationRate.num <= args.mutationRate.den
     /\ \A j \in 1..L0 : cfg.frags_count[cfg.keys[j]] >= 1) =>
        /\ pc # "error"
        /\ pc = "done" =>
              /\ gen = args.generations
              /\ WellFormed(pop, IF args.generations = 0 THEN args.popSize
                                 ELSE 2 * args.eliteSize)

\* C2: mutate_population mutates every row: with mutationRate = 1 no row of
\* the result of a table with rows holds a null allele, and the result has
\* the shape of the input.
C2_EveryRowMutated ==
    (pc = "return" /\ len(children) >= 1
       /\ args.mutationRate.num = args.mutationRate.den) =>
        /\ WellFormed(nextGeneration, len(children))
        /\ \A r \in 1..len(nextGeneration) : \A j \in 1..L0 :
              nextGeneration.rows[r][j] < cfg.frags_count[cfg.keys[j]]

\* the positions at which two rows differ
Diff(x, y) == {j \in 1..Len(x) : x[j] # y[j]}

\* C6: for a table of any number of rows, zero included, mutate_population
\* returns a table of the same shape whose rows differ from the input's in
\* at most floor(mutationRate * len(keys)) positions.
C6_BoundedChange ==
    pc = "return" =>
        /\ WellFormed(nextGeneration, len(children))
        /\ \A r \in 1..len(children) :
              Cardinality(Diff(nextGeneration.rows[r], children.rows[r]))
                  <= mutationNumber(args.mutationRate, L0)

\* C10 as stated: the best energy of the final population is at least the
\* best energy of the first (initial) population.
C10_FinalBestNotWorse ==
    pc = "done" => bestEnergy(pop, cfg) >= firstBest

\* C10 as amended: in every generation the best energy of the mating pool is
\* the best energy of the population it was selected from.
C10_SelectionKeepsBest ==
    pc = "crossover_population" =>
        /\ len(matingpool) = 2 * args.eliteSize
        /\ bestEnergy(matingpool, cfg) = bestEnergy(pop, cfg)

\* selection has acted on a population whose only best row is row 0, and
\* none of the random draws picked it
C10_Witness ==
    /\ pc = "crossover_population"
    /\ len(pop) = E2E.popSize
    /\ \A r \in 2..len(pop) : E(pop, r) < E(pop, 1)
    /\ \A p \in 2..len(matingpool) : E(matingpool, p) < E(pop, 1)

====
